---------------------------- MODULE Spec2Model ----------------------------
(***************************************************************************)
(* A model of the streaming numerical engine of openseize                  *)
(* (src/core/numerical.py): overlap-add convolution, chunked second-order  *)
(* section filtering, polyphase resampling and the FIFO-based spectral     *)
(* estimation engine behind welch, stft and PSD; of the producer these     *)
(* iterate; and of the EDF Reader used in a with block (src/io/edf.py).    *)
(*                                                                         *)
(* Samples are integers, so that every sum is exact.  The FFT product      *)
(* ifft(fft(x, nfft) * fft(win, nfft)) is modelled by what it computes,    *)
(* the circular convolution of length nfft, without floating point error.  *)
(* Sequences are 1-based; the source's 0-based half-open slices are        *)
(* translated by PySlice.                                                  *)
(***************************************************************************)
EXTENDS Integers, Sequences, FiniteSets

VARIABLES
    \* ---- overlap-add convolution (oaconvolve) and its source producer
    data,         \* the array behind the source producer
    chunksize,    \* pro.chunksize, the producer's mutable attribute
    isize0,       \* pro.chunksize when the producer was built
    win,          \* win[c]: the kernel of consumer c
    mode,         \* mode[c]: the mode string of consumer c
    pc,           \* pc[c]: position of consumer c's generator
    pos,          \* pos[c]: samples consumer c's iterator has read from pro
    isize,        \* isize[c]: the local isize of consumer c
    segment_num,  \* segment_num[c]: segments processed so far
    overlap,      \* overlap[c]: the carried tail
    yielded,      \* yielded[c]: the segments yielded so far, in order
    dpc,          \* position of a direct iteration of the producer
    dpos,         \* samples the direct iteration has read
    dchunks,      \* chunks the direct iteration obtained
    \* ---- chunked second-order-section filtering (sosfilt)
    sdata,        \* the array behind the producer given to sosfilt
    sos,          \* the sections, each <<b0, b1, b2, a1, a2>> with a0 = 1
    zi,           \* the zi argument; <<>> stands for None
    z,            \* the carried filter memory, one <<z0, z1>> per section
    spos,         \* samples read from the producer
    sy,           \* the chunks yielded so far
    spc,          \* position of the sosfilt generator
    fkind,        \* "sosfilt", or "sosfiltfilt" when it drives the forward pass
    fy,           \* the chunks sosfiltfilt yielded so far
    fz,           \* sosfiltfilt's local z, the memory its backward pass left
    \* ---- the spectral estimation engine (_spectra_estimatives, welch, stft)
    xdata,        \* the samples of the input producer: 1..N, in order
    nfft,         \* segment length
    ovfrac,       \* the overlap, a fraction <<numerator, denominator>>
    kind,         \* "welch" or "stft"
    boundary,     \* stft's boundary option
    padded,       \* stft's padded option
    epos,         \* samples pulled from the producer the engine iterates
    subarr_in,    \* arr, the chunk held by the for loop
    queue,        \* fifo.queue
    windows,      \* the nfft-sample windows handed to func, in order
    bins,         \* bins[k]: length along axis of the k-th estimate yielded
    epc,          \* position of the engine's generator
    scaling,      \* the scaling identifier
    psd_cnt,      \* PSD's cnt; 0 while the name is unbound
    psd_result,   \* PSD's result, a fraction <<numerator, denominator>>
    nsegs,        \* the segment count welch or stft declared in the shape
    time,         \* the time vector stft returned, in samples (fs = 1)
    gains,        \* per estimate yielded, the factor applied to each bin's power
    \* ---- polyphase resampling (polyphase_resample)
    pn,           \* pro.shape[axis]
    up,           \* L, the expansion factor
    down,         \* M, the decimation factor
    pchunksize,   \* the chunksize argument
    hlen,         \* len(h), the taps of the antialiasing kernel
    iprior,       \* chunks taken from iprior
    icurrent,     \* chunks taken from icurrent
    inext,        \* chunks taken from inext
    presult,      \* per yielded chunk: its left, curr, right and length
    h_built,      \* whether the antialiasing kernel h has been designed
    ppc,          \* position of the resampling generator
    \* ---- a producer and the iterations made of it
    psrc,         \* the arrays behind the producer, in order: one array, or
                  \* the arrays a one-shot generator hands out
    pkind,        \* "array" or "gen"
    pcs,          \* the producer's chunksize
    pbuilt,       \* whether producer(...) has been called
    pshape,       \* the shape the producer reports along axis
    gnext,        \* arrays the generator has handed out so far
    started,      \* the iterations begun, in the order they began
    itpc,         \* itpc[i]: position of iteration i
    itrev,        \* itrev[i]: whether iteration i is of reversed(pro)
    itpos,        \* itpos[i]: chunks iteration i has obtained
    itbuf,        \* itbuf[i]: samples iteration i holds, not yet yielded
    itout,        \* itout[i]: the chunks iteration i obtained, in order
    \* ---- an EDF Reader used in a with block (src/io/edf.py, readers.py)
    fobj,         \* the reader's file object: "unopened", "open" or "closed"
    wpc,          \* position of the with statement: "new", "body", "exited"
    nsamp,        \* max(self.header.samples), the samples in the file
    rstart,       \* read's start argument
    rstop,        \* read's stop argument; 0 stands for None
    rchunk,       \* read's chunksize argument
    rpc,          \* what the call of read gave: "none" before the call
    rnext,        \* pairs the generator of _read_gen has taken from its zip
    rout,         \* the arrays read returned or its generator yielded
    raised,       \* the exception raised in the body, "none" if none
    propagated    \* the exception that left the with statement

oaVars == <<data, chunksize, isize0, win, mode, pc, pos, isize, segment_num,
            overlap, yielded, dpc, dpos, dchunks>>

sosVars == <<sdata, sos, zi, z, spos, sy, spc, fkind, fy, fz>>

seVars == <<xdata, nfft, ovfrac, kind, boundary, padded, epos, subarr_in, queue,
            windows, bins, epc, scaling, psd_cnt, psd_result, nsegs, time,
            gains>>

polyVars == <<pn, up, down, pchunksize, hlen, iprior, icurrent, inext,
              presult, h_built, ppc>>

proVars == <<psrc, pkind, pcs, pbuilt, pshape, gnext, started, itpc, itrev,
             itpos, itbuf, itout>>

ioVars == <<fobj, wpc, nsamp, rstart, rstop, rchunk, rpc, rnext, rout, raised,
            propagated>>

vars == <<oaVars, sosVars, seVars, polyVars, proVars, ioVars>>

notOA == <<sosVars, seVars, polyVars, proVars, ioVars>>
notSos == <<oaVars, seVars, polyVars, proVars, ioVars>>
notSE == <<oaVars, sosVars, polyVars, proVars, ioVars>>
notPoly == <<oaVars, sosVars, seVars, proVars, ioVars>>
notPro == <<oaVars, sosVars, seVars, polyVars, ioVars>>
notIO == <<oaVars, sosVars, seVars, polyVars, proVars>>

-----------------------------------------------------------------------------
(* Bounds *)

MaxN == 32
MaxChunk == 3
MaxSosN == 6
MaxSeN == 20
MaxNfft == 4
MaxPolyN == 14
MaxUp == 3
MaxDown == 4
MaxPChunk == 5
MaxTaps == 5
MaxSegs == 3
MaxSegLen == 3
MaxArrN == 5
MaxProChunk == 4
MaxFileN == 6
MaxRChunk == 3
MaxLiveN == 8

-----------------------------------------------------------------------------
(* Array helpers *)

Min(a, b) == IF a < b THEN a ELSE b
Max(a, b) == IF a > b THEN a ELSE b

Zeros(n) == [i \in 1..n |-> 0]

\* arr[start:stop] for 0 <= start, with Python's clamping of stop
PySlice(arr, start, stop) ==
    LET hi == Min(Max(stop, 0), Len(arr))
    IN  IF start >= hi THEN <<>> ELSE SubSeq(arr, start + 1, hi)

RECURSIVE SumTo(_, _)
SumTo(f, n) == IF n = 0 THEN 0 ELSE f[n] + SumTo(f, n - 1)

RECURSIVE Concat(_)
Concat(ss) == IF ss = <<>> THEN <<>> ELSE Head(ss) \o Concat(Tail(ss))

CeilDiv(a, b) == (a + b - 1) \div b

\* len(range(a, b, step)) and len(np.arange(a, b, step)) for step > 0
RangeLen(a, b, step) == IF b > a THEN CeilDiv(b - a, step) ELSE 0

\* np.flip(s, axis)
Flip(s) == [i \in 1..Len(s) |-> s[Len(s) + 1 - i]]

Abs(x) == IF x < 0 THEN -x ELSE x

RECURSIVE Gcd(_, _)
Gcd(a, b) == IF b = 0 THEN a ELSE Gcd(b, a % b)

\* np.ceil(np.log2(n)) for n >= 1
CeilLog2(n) == CHOOSE k \in 0..10 : 2^k >= n /\ (k = 0 \/ 2^(k-1) < n)

-----------------------------------------------------------------------------
(* The source producer: a lazy chunked view over data.  A chunk requested   *)
(* at position p is the next `size` samples, the last chunk being shorter.  *)

ProChunkStalled(arr, p, size) == <<>>
ProChunk(arr, p, size) == PySlice(arr, p, p + size)

\* the chunks of arr at a fixed chunk size
RECURSIVE RechunkFrom(_, _, _)
RechunkFrom(arr, p, size) ==
    IF p >= Len(arr) THEN <<>>
    ELSE <<ProChunk(arr, p, size)>> \o RechunkFrom(arr, p + size, size)

Rechunk(arr, size) == RechunkFrom(arr, 0, size)

-----------------------------------------------------------------------------
(* Direct convolution and numpy's boundary modes *)

Modes == {"full", "same", "valid"}

\* np.convolve(x, h, 'full'): out[n] = sum_k x[k] h[n-k], length N + M - 1
FullConv(x, h) ==
    [n \in 1..(Len(x) + Len(h) - 1) |->
        SumTo([j \in 1..Len(h) |->
                 IF n - j + 1 >= 1 /\ n - j + 1 <= Len(x)
                 THEN h[j] * x[n - j + 1] ELSE 0], Len(h))]

convolve_slicer(arr, m, n, md) ==
    LET p == Max(m, n)
        q == Min(m, n)
    IN  CASE md = "full"  -> arr
          [] md = "same"  -> PySlice(arr, (q - 1) \div 2, (q - 1) \div 2 + p)
          [] md = "valid" -> PySlice(arr, q - 1, (n + m - 1) - (q - 1))

\* the single-pass convolution of the whole signal under a mode
DirectConv(x, h, md) == convolve_slicer(FullConv(x, h), Len(x), Len(h), md)

-----------------------------------------------------------------------------
(* oaconvolve *)

optimal_nffts(arr) == 8 * 2^CeilLog2(Len(arr))

\* fft.fft(x, n) crops x to n samples or pads it with zeros to n samples
FitTo(x, n) == [i \in 1..n |-> IF i <= Len(x) THEN x[i] ELSE 0]

\* fft.ifft(fft.fft(x, nfft) * fft.fft(h, nfft)).real: circular convolution
CircConv(x, h, npts) ==
    LET xp == FitTo(x, npts)
        hp == FitTo(h, npts)
    IN  [n \in 1..npts |->
           SumTo([j \in 1..npts |->
                    hp[j] * xp[((n - j + npts) % npts) + 1]], npts)]

pad_along_axis(arr, amt) == arr \o Zeros(amt)

\* the two cuts of _oa_mode: [0] for the segment with idx = 0, [1] otherwise
OaCut(segment, idx, win_len, md) ==
    LET ns == Len(segment)
    IN  CASE md = "full"  -> segment
          [] md = "same"  ->
               IF idx > 0
               THEN PySlice(segment, 0, ns - ((win_len - 1) \div 2))
               ELSE PySlice(segment, (win_len - 1) \div 2, ns)
          [] md = "valid" ->
               IF idx > 0
               THEN PySlice(segment, 0, ns - win_len + 1)
               ELSE PySlice(segment, win_len - 1, ns)

\* _oa_mode: the mode is validated here, on the first call
OaModeOk(md) == md \in Modes

OaL(w) == optimal_nffts(w) - Len(w) + 1

OaNsegments(arr, w) == CeilDiv(Len(arr), OaL(w))

\* y[0:M-1] += overlap
AddOverlap(y, ovl) ==
    [i \in 1..Len(y) |-> IF i <= Len(ovl) THEN y[i] + ovl[i] ELSE y[i]]

\* One pass of the loop body of oaconvolve on block subarr, which is segment
\* number segnum (from 0) of nsegments.  status "ok" means y is yielded.
\* new_overlap is a local that only the split branch assigns: on the first
\* pass through the other branch it is unbound and reading it raises.
OaSegment(subarr, ovl, segnum, nsegments, w, md) ==
    LET M    == Len(w)
        npts == optimal_nffts(w)
        L    == npts - M + 1
        x    == pad_along_axis(subarr, M - 1)
        yc   == CircConv(x, w, npts)
        split == segnum < nsegments - 1
        y1   == IF split THEN PySlice(yc, 0, L)
                ELSE PySlice(yc, 0, Len(subarr) + M - 1)
        bound == split \/ segnum > 0
        new_overlap == IF split THEN PySlice(yc, L, npts) ELSE ovl
        y2   == AddOverlap(y1, ovl)
        edge == segnum = 0 \/ segnum = nsegments - 1
    IN  IF ~bound THEN [status |-> "UnboundLocalError", y |-> <<>>, overlap |-> ovl]
        ELSE IF edge /\ ~OaModeOk(md)
             THEN [status |-> "ValueError", y |-> <<>>, overlap |-> new_overlap]
        ELSE [status |-> "ok",
              y |-> IF edge THEN OaCut(y2, segnum, M, md) ELSE y2,
              overlap |-> new_overlap]


\* oaconvolve run alone on a producer over arr: the segments it yields and how
\* the stream ends ("done", or the error raised)
RECURSIVE OaAloneFrom(_, _, _, _, _, _)
OaAloneFrom(arr, w, md, p, ovl, k) ==
    IF p >= Len(arr) THEN [status |-> "done", segs |-> <<>>]
    ELSE LET subarr == ProChunk(arr, p, OaL(w))
             r == OaSegment(subarr, ovl, k, OaNsegments(arr, w), w, md)
         IN  IF r.status # "ok" THEN [status |-> r.status, segs |-> <<>>]
             ELSE LET rest == OaAloneFrom(arr, w, md, p + Len(subarr),
                                          r.overlap, k + 1)
                  IN  [status |-> rest.status, segs |-> <<r.y>> \o rest.segs]

OaAlone(arr, w, md) == OaAloneFrom(arr, w, md, 0, Zeros(Len(w) - 1), 0)

Cons == {1, 2}

\* the state after one pass of the loop body on block subarr
OaAdvance(c, subarr) ==
    LET r == OaSegment(subarr, overlap[c], segment_num[c],
                       OaNsegments(data, win[c]), win[c], mode[c])
    IN  /\ pos' = [pos EXCEPT ![c] = @ + Len(subarr)]
        /\ overlap' = [overlap EXCEPT ![c] = r.overlap]
        /\ IF r.status = "ok"
           THEN /\ yielded' = [yielded EXCEPT ![c] = Append(@, r.y)]
                /\ segment_num' = [segment_num EXCEPT ![c] = @ + 1]
                /\ pc' = [pc EXCEPT ![c] = "loop"]
           ELSE /\ pc' = [pc EXCEPT ![c] = r.status]
                /\ UNCHANGED <<yielded, segment_num>>

\* first next(): lines 122-167 up to the first yield
OAFirst(c) ==
    /\ pc[c] = "start"
    /\ isize' = [isize EXCEPT ![c] = chunksize]
    /\ chunksize' = OaL(win[c])
    /\ OaAdvance(c, ProChunk(data, pos[c], OaL(win[c])))
    /\ UNCHANGED <<data, isize0, win, mode, dpc, dpos, dchunks, notOA>>

\* a later next() while the producer has a block left: lines 141-167
OANext(c) ==
    /\ pc[c] = "loop"
    /\ pos[c] < Len(data)
    /\ OaAdvance(c, ProChunk(data, pos[c], chunksize))
    /\ UNCHANGED <<data, chunksize, isize0, win, mode, isize, dpc, dpos,
                   dchunks, notOA>>

\* the next() that finds the producer exhausted: line 170
OAFinish(c) ==
    /\ pc[c] = "loop"
    /\ pos[c] >= Len(data)
    /\ chunksize' = isize[c]
    /\ pc' = [pc EXCEPT ![c] = "done"]
    /\ UNCHANGED <<data, isize0, win, mode, pos, isize, segment_num, overlap,
                   yielded, dpc, dpos, dchunks, notOA>>

\* a direct iteration of the shared producer: one chunk per next()
DirectNext ==
    /\ dpc = "iter"
    /\ dpos < Len(data)
    /\ dchunks' = Append(dchunks, ProChunk(data, dpos, chunksize))
    /\ dpos' = dpos + Len(ProChunk(data, dpos, chunksize))
    /\ UNCHANGED <<data, chunksize, isize0, win, mode, pc, pos, isize,
                   segment_num, overlap, yielded, dpc, notOA>>

DirectStop ==
    /\ dpc = "iter"
    /\ dpos >= Len(data)
    /\ dpc' = "done"
    /\ UNCHANGED <<data, chunksize, isize0, win, mode, pc, pos, isize,
                   segment_num, overlap, yielded, dpos, dchunks, notOA>>

\* input signals: a ramp, a signed pattern and an impulse on the last sample
Signal(n, k) ==
    [i \in 1..n |-> CASE k = 1 -> i
                      [] k = 2 -> ((i * i) % 7) - 3
                      [] k = 3 -> IF i = n THEN 1 ELSE 0]

Signals == {Signal(n, k) : n \in 1..MaxN, k \in 1..3}

Kernels == {<<2>>, <<1, 2>>, <<1, -1>>, <<1, 2, 3>>, <<3, 1, 2, 1>>}

ModeStrings == Modes \cup {"bogus"}

-----------------------------------------------------------------------------
(* Each specification runs one component; the others stay as constructed. *)

IdleOA ==
    /\ data = <<>>
    /\ chunksize = 1
    /\ isize0 = 1
    /\ win = [c \in Cons |-> <<1>>]
    /\ mode = [c \in Cons |-> "full"]
    /\ pc = [c \in Cons |-> "off"]
    /\ pos = [c \in Cons |-> 0]
    /\ isize = [c \in Cons |-> 0]
    /\ segment_num = [c \in Cons |-> 0]
    /\ overlap = [c \in Cons |-> <<>>]
    /\ yielded = [c \in Cons |-> <<>>]
    /\ dpc = "off"
    /\ dpos = 0
    /\ dchunks = <<>>

IdleSos ==
    /\ sdata = <<>>
    /\ sos = <<>>
    /\ zi = <<>>
    /\ z = <<>>
    /\ spos = 0
    /\ sy = <<>>
    /\ spc = "off"
    /\ fkind = "sosfilt"
    /\ fy = <<>>
    /\ fz = <<>>

IdleSE ==
    /\ xdata = <<>>
    /\ nfft = 1
    /\ ovfrac = <<0, 1>>
    /\ kind = "welch"
    /\ boundary = FALSE
    /\ padded = FALSE
    /\ epos = 0
    /\ subarr_in = <<>>
    /\ queue = <<>>
    /\ windows = <<>>
    /\ bins = <<>>
    /\ epc = "off"
    /\ scaling = "density"
    /\ psd_cnt = 0
    /\ psd_result = <<0, 1>>
    /\ nsegs = 0
    /\ time = <<>>
    /\ gains = <<>>

IdlePoly ==
    /\ pn = 0
    /\ up = 1
    /\ down = 1
    /\ pchunksize = 1
    /\ hlen = 1
    /\ iprior = 0
    /\ icurrent = 0
    /\ inext = 0
    /\ presult = <<>>
    /\ h_built = FALSE
    /\ ppc = "off"

Its == {1, 2, 3}

IdlePro ==
    /\ psrc = <<>>
    /\ pkind = "array"
    /\ pcs = 1
    /\ pbuilt = FALSE
    /\ pshape = 0
    /\ gnext = 0
    /\ started = <<>>
    /\ itpc = [i \in Its |-> "off"]
    /\ itrev = [i \in Its |-> FALSE]
    /\ itpos = [i \in Its |-> 0]
    /\ itbuf = [i \in Its |-> <<>>]
    /\ itout = [i \in Its |-> <<>>]

IdleIO ==
    /\ fobj = "unopened"
    /\ wpc = "off"
    /\ nsamp = 0
    /\ rstart = 0
    /\ rstop = 0
    /\ rchunk = 1
    /\ rpc = "none"
    /\ rnext = 0
    /\ rout = <<>>
    /\ raised = "none"
    /\ propagated = "none"

InitOA ==
    /\ data \in Signals
    /\ chunksize \in 1..MaxChunk
    /\ isize0 = chunksize
    /\ \E w \in Kernels : win = [c \in Cons |-> IF c = 1 THEN w ELSE <<1>>]
    /\ \E md \in ModeStrings : mode = [c \in Cons |-> IF c = 1 THEN md ELSE "full"]
    /\ pc = [c \in Cons |-> IF c = 1 THEN "start" ELSE "off"]
    /\ pos = [c \in Cons |-> 0]
    /\ isize = [c \in Cons |-> 0]
    /\ segment_num = [c \in Cons |-> 0]
    /\ overlap = [c \in Cons |-> Zeros(Len(win[c]) - 1)]
    /\ yielded = [c \in Cons |-> <<>>]
    /\ dpc = "off"
    /\ dpos = 0
    /\ dchunks = <<>>
    /\ IdleSos /\ IdleSE /\ IdlePoly /\ IdlePro /\ IdleIO

NextOA == \E c \in Cons : OAFirst(c) \/ OANext(c) \/ OAFinish(c)

SpecOA == InitOA /\ [][NextOA]_vars

\* two oaconvolve streams and a direct iteration over one shared producer
SharedKernels == {<<2>>, <<1, -1>>}

InitShared ==
    /\ data \in {Signal(n, 1) : n \in {MaxN \div 2, MaxN \div 2 + 1}}
    /\ chunksize \in 1..MaxChunk
    /\ isize0 = chunksize
    /\ win \in [Cons -> SharedKernels]
    /\ win[1] # win[2]
    /\ mode = [c \in Cons |-> "full"]
    /\ pc = [c \in Cons |-> "start"]
    /\ pos = [c \in Cons |-> 0]
    /\ isize = [c \in Cons |-> 0]
    /\ segment_num = [c \in Cons |-> 0]
    /\ overlap = [c \in Cons |-> Zeros(Len(win[c]) - 1)]
    /\ yielded = [c \in Cons |-> <<>>]
    /\ dpc = "iter"
    /\ dpos = 0
    /\ dchunks = <<>>
    /\ IdleSos /\ IdleSE /\ IdlePoly /\ IdlePro /\ IdleIO

NextShared ==
    \/ \E c \in Cons : OAFirst(c) \/ OANext(c) \/ OAFinish(c)
    \/ DirectNext
    \/ DirectStop

SpecShared == InitShared /\ [][NextShared]_vars

-----------------------------------------------------------------------------
(* Overlap-add convolution: properties *)

OaRunning(c) == pc[c] = "loop"
OaEnded(c) == pc[c] \in {"done", "UnboundLocalError", "ValueError"}

\* C1: for every signal, kernel, mode and initial chunksize the concatenation
\* of the segments oaconvolve yields is the direct convolution of the whole
\* signal with the kernel under the mode (the stream ends without an error).
C1_OaEqualsDirect ==
    (mode[1] \in Modes /\ OaEnded(1)) =>
        /\ pc[1] = "done"
        /\ Concat(yielded[1]) = DirectConv(data, win[1], mode[1])

\* C2: for N >= M the concatenated output has N+M-1 samples (full), N samples
\* (same) and N-M+1 samples (valid), for odd and for even M.
ModeLength(n, m, md) ==
    CASE md = "full"  -> n + m - 1
      [] md = "same"  -> n
      [] md = "valid" -> n - m + 1

C2_OaLengths ==
    (mode[1] \in Modes /\ OaEnded(1) /\ Len(data) >= Len(win[1])) =>
        /\ pc[1] = "done"
        /\ Len(Concat(yielded[1])) = ModeLength(Len(data), Len(win[1]), mode[1])


\* C9: once the output of oaconvolve has been iterated to exhaustion the
\* producer's chunksize is the one it had before oaconvolve started, and the
\* chunksize differs from that value only while the stream is being iterated.
C9_ChunksizeRestored ==
    /\ pc[1] = "done" => chunksize = isize0
    /\ chunksize # isize0 => OaRunning(1)

\* C10: consumers that share one producer and are advanced in any
\* interleaving each obtain the output they obtain when run alone: an
\* oaconvolve stream ends as it does alone, with the same segments, and a
\* direct iteration obtains the chunks of the producer's own chunksize.
C10_ConsumersIndependent ==
    /\ \A c \in Cons :
          OaEnded(c) =>
              /\ pc[c] = OaAlone(data, win[c], mode[c]).status
              /\ yielded[c] = OaAlone(data, win[c], mode[c]).segs
    /\ dpc = "done" => dchunks = Rechunk(data, isize0)

\* C11: with a mode string outside {full, same, valid} oaconvolve ends in the
\* mode error before any processing: no block has been pulled from the source
\* producer, no block has been convolved (the carried overlap is still the
\* zeros it was built with) and no segment has been yielded.
C11_ModeRejectedFirst ==
    (mode[1] \notin Modes /\ pc[1] # "start") =>
        /\ pc[1] = "ValueError"
        /\ pos[1] = 0
        /\ overlap[1] = Zeros(Len(win[1]) - 1)
        /\ yielded[1] = <<>>

\* C21: when the whole signal fits in one block (N <= L) oaconvolve yields
\* exactly one segment, with the leading and the trailing trim of the mode
\* applied, so that its length is N+M-1 (full), N (same) or N-M+1 (valid).
C21_SingleBlockTrimmed ==
    (mode[1] \in Modes /\ OaEnded(1) /\ Len(data) <= OaL(win[1])
        /\ Len(data) >= Len(win[1])) =>
        /\ pc[1] = "done"
        /\ Len(yielded[1]) = 1
        /\ Len(yielded[1][1]) = ModeLength(Len(data), Len(win[1]), mode[1])


-----------------------------------------------------------------------------
(* sosfilt: second-order sections applied chunk by chunk with carried z *)

\* sps.sosfilt on one sample: the sections from s on, in cascade, each in
\* direct form II transposed; zs is the memory of all sections
RECURSIVE SosSample(_, _, _, _)
SosSample(sections, s, x, zs) ==
    IF s > Len(sections) THEN [y |-> x, z |-> zs]
    ELSE LET b0 == sections[s][1]
             b1 == sections[s][2]
             b2 == sections[s][3]
             a1 == sections[s][4]
             a2 == sections[s][5]
             y  == b0 * x + zs[s][1]
             zn == <<b1 * x - a1 * y + zs[s][2], b2 * x - a2 * y>>
         IN  SosSample(sections, s + 1, y, [zs EXCEPT ![s] = zn])

\* sps.sosfilt(sos, x, zi=zs): the filtered samples and the final memory
RECURSIVE SpsSosfilt(_, _, _)
SpsSosfilt(sections, x, zs) ==
    IF x = <<>> THEN [y |-> <<>>, z |-> zs]
    ELSE LET r    == SosSample(sections, 1, Head(x), zs)
             rest == SpsSosfilt(sections, Tail(x), r.z)
         IN  [y |-> <<r.y>> \o rest.y, z |-> rest.z]

\* line 195: zeros when zi is None
SosInitialZ(sections, zini) ==
    IF zini = <<>> THEN [s \in 1..Len(sections) |-> <<0, 0>>] ELSE zini

\* line 198: the memory handed to sps.sosfilt for the next chunk
SosZinReset == SosInitialZ(sos, zi)
SosZin == z

\* sps.sosfilt_zi(sos): the memory of each section in the steady state of the
\* step response, scaled by the gain of the sections before it
SectionGain(sec) == (sec[1] + sec[2] + sec[3]) \div (1 + sec[4] + sec[5])

SectionZi(sec) == <<SectionGain(sec) - sec[1], sec[3] - sec[5] * SectionGain(sec)>>

RECURSIVE SosfiltZiFrom(_, _, _)
SosfiltZiFrom(sections, s, scale) ==
    IF s > Len(sections) THEN <<>>
    ELSE <<<<scale * SectionZi(sections[s])[1], scale * SectionZi(sections[s])[2]>>>>
         \o SosfiltZiFrom(sections, s + 1, scale * SectionGain(sections[s]))

SosfiltZi(sections) == SosfiltZiFrom(sections, 1, 1)

\* zi * x0
ScaleZi(zs, x0) == [s \in 1..Len(zs) |-> <<zs[s][1] * x0, zs[s][2] * x0>>]

\* sosfiltfilt lines 220-229: the zi it hands to the forward pass, seeded
\* from the first sample of the first chunk
SffForwardZi == ScaleZi(SosfiltZi(sos), sdata[1])

\* sosfiltfilt line 237: the memory the backward pass of a chunk starts from,
\* seeded from y0, the first sample of the flipped chunk
SffBackZiCarried(y0) == IF fz = <<>> THEN ScaleZi(SosfiltZi(sos), y0) ELSE fz
SffBackZi(y0) == ScaleZi(SosfiltZi(sos), y0)

\* sosfiltfilt lines 232-238: the backward pass over one forward chunk
SffBackward(arr) ==
    LET flipped == Flip(arr)
        r == SpsSosfilt(sos, flipped, SffBackZi(flipped[1]))
    IN  [y |-> Flip(r.y), z |-> r.z]

\* the body of sosfiltfilt's for loop on the chunk the forward pass yielded
SffStep(arr) ==
    IF fkind = "sosfiltfilt"
    THEN /\ fy' = Append(fy, SffBackward(arr).y)
         /\ fz' = SffBackward(arr).z
    ELSE UNCHANGED <<fy, fz>>

\* first next(): lines 193-199, z is set from zi and the first chunk filtered;
\* under sosfiltfilt lines 220-238 run around it
SosFirst ==
    /\ spc = "start"
    /\ zi' = IF fkind = "sosfiltfilt" THEN SffForwardZi ELSE zi
    /\ \E n \in 1..MaxChunk :
          LET chunk == ProChunk(sdata, spos, n)
              r == SpsSosfilt(sos, chunk, SosInitialZ(sos, zi'))
          IN  /\ z' = r.z
              /\ sy' = Append(sy, r.y)
              /\ spos' = spos + Len(chunk)
              /\ SffStep(r.y)
    /\ spc' = "iter"
    /\ UNCHANGED <<sdata, sos, fkind, notSos>>

\* a later next() with a chunk left: lines 197-199
SosNext ==
    /\ spc = "iter"
    /\ spos < Len(sdata)
    /\ \E n \in 1..MaxChunk :
          LET chunk == ProChunk(sdata, spos, n)
              r == SpsSosfilt(sos, chunk, SosZin)
          IN  /\ z' = r.z
              /\ sy' = Append(sy, r.y)
              /\ spos' = spos + Len(chunk)
              /\ SffStep(r.y)
    /\ UNCHANGED <<sdata, sos, zi, spc, fkind, notSos>>

SosStop ==
    /\ spc = "iter"
    /\ spos >= Len(sdata)
    /\ spc' = "done"
    /\ UNCHANGED <<sdata, sos, zi, z, spos, sy, fkind, fy, fz, notSos>>

SosFilters ==
    { << <<1, 2, 1, -1, 1>> >>,
      << <<1, 0, -1, 1, 0>>, <<2, 1, 0, 0, -1>> >> }

\* sections whose steady-state gains are integers
SffFilters ==
    { << <<1, 2, 1, -1, 1>> >>,
      << <<1, 2, 1, -1, 1>>, <<2, 1, 1, 0, 1>> >> }

InitSos ==
    /\ sdata \in {Signal(n, k) : n \in 1..MaxSosN, k \in 1..3}
    /\ fkind \in {"sosfilt", "sosfiltfilt"}
    /\ sos \in IF fkind = "sosfilt" THEN SosFilters ELSE SffFilters
    /\ zi \in IF fkind = "sosfilt"
              THEN {<<>>, [s \in 1..Len(sos) |-> <<s, -1>>]}
              ELSE {<<>>}
    /\ z = <<>>
    /\ spos = 0
    /\ sy = <<>>
    /\ spc = "start"
    /\ fy = <<>>
    /\ fz = <<>>
    /\ IdleOA /\ IdleSE /\ IdlePoly /\ IdlePro /\ IdleIO

NextSos == SosFirst \/ SosNext \/ SosStop

SpecSos == InitSos /\ [][NextSos]_vars

\* C3: for every partition of the signal into consecutive chunks, the
\* concatenation of the chunks sosfilt yields, with z carried from chunk to
\* chunk from zi (zeros when zi is None), is the whole signal filtered as one
\* chunk from the same initial state; this holds of every prefix read so far.
C3_SosChunkedEqualsWhole ==
    spc \in {"iter", "done"} =>
        LET whole == SpsSosfilt(sos, PySlice(sdata, 0, spos), SosInitialZ(sos, zi))
        IN  /\ Concat(sy) = whole.y
            /\ z = whole.z
            /\ spc = "done" => spos = Len(sdata)

\* a signal filtered in three chunks of different lengths from a given zi
C3_Witness ==
    /\ spc = "done"
    /\ Len(sy) = 3
    /\ Len(sy[1]) # Len(sy[2])
    /\ zi # <<>>
    /\ Len(sos) = 2
    /\ fkind = "sosfilt"


\* C24: sosfiltfilt yields one chunk per forward-filtered chunk, in order and
\* of the same length, and chunk k is a function of forward chunk k alone:
\* the forward chunk flipped, filtered from the memory seeded by its own last
\* sample, and flipped back; the forward pass keeps the z it has when sosfilt
\* runs alone.
C24_BackwardPerChunk ==
    fkind = "sosfiltfilt" =>
        /\ Len(fy) = Len(sy)
        /\ \A k \in 1..Len(fy) :
              /\ Len(fy[k]) = Len(sy[k])
              /\ fy[k] = Flip(SpsSosfilt(sos, Flip(sy[k]),
                                ScaleZi(SosfiltZi(sos), sy[k][Len(sy[k])])).y)
        /\ spc \in {"iter", "done"} =>
              z = SpsSosfilt(sos, PySlice(sdata, 0, spos), SffForwardZi).z

\* three chunks filtered forward and backward through two sections, the
\* backward pass having left a memory other than zero
C24_Witness ==
    /\ fkind = "sosfiltfilt"
    /\ spc = "done"
    /\ Len(fy) = 3
    /\ Len(sos) = 2
    /\ fz # ScaleZi(SosfiltZi(sos), 0)

-----------------------------------------------------------------------------
(* The spectral estimation engine: _spectra_estimatives behind welch, stft *)

\* lines 537-538 and 747-748: int(nfft * overlap) and the stride
Noverlap == (nfft * ovfrac[1]) \div ovfrac[2]
Stride == nfft - Noverlap

\* lines 752-762: the zeros stft puts before and after the producer's samples
SeLead == IF boundary THEN nfft \div 2 ELSE 0
SeAmt == IF Len(xdata) % Stride # 0 THEN Stride ELSE 0
SeTrail == (IF boundary THEN nfft \div 2 ELSE 0) + (IF padded THEN SeAmt ELSE 0)

\* the logical sequence of the producer the engine iterates (welch: pro)
SeData == Zeros(SeLead) \o xdata \o Zeros(SeTrail)

\* FIFOArray(chunksize=stride): put appends, get releases chunksize samples
\* from the front and fails on an underfull queue, qsize counts the samples
FifoPut(q, a) == q \o a
FifoQsize(q) == Len(q)
FifoGetOk(q) == FifoQsize(q) >= Stride
FifoGetOne(q) == PySlice(q, 1, Len(q))
FifoGet(q) == PySlice(q, Stride, Len(q))

\* lines 545 and 564: while fifo.qsize() >= nfft
CanEmitStrict(q) == FifoQsize(q) > nfft
CanEmitAny(q) == FifoQsize(q) >= 1
CanEmit(q) == FifoQsize(q) >= nfft

\* lines 548 and 566: slice_along_axis(fifo.queue, 0, nfft)
SeWindowShifted(q) == PySlice(q, 1, nfft + 1)
SeWindow(q) == PySlice(q, 0, nfft)

\* np.fft.rfft(arr, nfft) and np.fft.rfftfreq(nfft): length along axis
RfftLen(n) == n \div 2 + 1

\* modified_dft lines 425-434: the scaling is tested after the window was
\* detrended, tapered and transformed
Scalings == {"spectrum", "density"}
ScalingOk == scaling \in Scalings

\* a fraction in lowest terms
FracNorm(n, d) == LET g == Gcd(Abs(n), d) IN <<n \div g, d \div g>>

\* periodogram of one window, kept to its bin k = 0 with a boxcar window, no
\* detrending and the norm left out: the squared modulus of the sum
PsdBin0(w) == SumTo(w, Len(w)) * SumTo(w, Len(w))

\* PSD line 103: result = result + 1 / cnt * (arr - result), in exact fractions
PsdUpdateOffByOne(res, c, a) ==
    FracNorm(res[1] * (c + 1) + a * res[2] - res[1], res[2] * (c + 1))
PsdUpdate(res, c, a) ==
    FracNorm(res[1] * c + a * res[2] - res[1], res[2] * c)

\* periodogram lines 506-515: the bins (from 0) of the one-sided spectrum that
\* slice(1, None) and slice(1, -1) select, with the parity test inverted
DoubledBinsSwapped(n) ==
    IF n % 2 = 0 THEN 1..(RfftLen(n) - 1) ELSE 1..(RfftLen(n) - 2)

\* periodogram lines 506-515: slice(1, None) for odd nfft, slice(1, -1) for
\* even nfft
DoubledBins(n) ==
    IF n % 2 = 1 THEN 1..(RfftLen(n) - 1) ELSE 1..(RfftLen(n) - 2)

\* periodogram line 515: arr[slicer] *= 2, as the factor of each bin
PeriodogramGain(n) ==
    [k \in 1..RfftLen(n) |-> IF (k - 1) \in DoubledBins(n) THEN 2 ELSE 1]

\* the estimator the engine calls: periodogram for welch and PSD,
\* modified_dft, which doubles nothing, for stft
EstimateGain ==
    IF kind = "stft" THEN [k \in 1..RfftLen(nfft) |-> 1] ELSE PeriodogramGain(nfft)

\* lines 548-553 and 566-569: estimate one window, release stride samples and
\* yield; under PSD the body of its for loop runs on the estimate yielded
SeEmit ==
    /\ windows' = Append(windows, SeWindow(queue))
    /\ IF ~ScalingOk
       THEN /\ epc' = "ValueError"
            /\ UNCHANGED <<queue, bins, gains, psd_cnt, psd_result>>
       ELSE /\ bins' = Append(bins, RfftLen(nfft))
            /\ gains' = Append(gains, EstimateGain)
            /\ IF FifoGetOk(queue)
               THEN /\ queue' = FifoGet(queue)
                    /\ UNCHANGED epc
                    /\ IF kind = "psd"
                       THEN /\ psd_cnt' = psd_cnt + 1
                            /\ psd_result' = PsdUpdate(psd_result, psd_cnt + 1,
                                                       PsdBin0(SeWindow(queue)))
                       ELSE UNCHANGED <<psd_cnt, psd_result>>
               ELSE /\ epc' = "error"
                    /\ UNCHANGED <<queue, psd_cnt, psd_result>>

\* for n, arr in enumerate(pro): the producer hands over its next chunk
SEPull ==
    /\ epc = "pull"
    /\ epos < Len(SeData)
    /\ \E n \in 1..MaxChunk :
          /\ subarr_in' = ProChunk(SeData, epos, n)
          /\ epos' = epos + Len(ProChunk(SeData, epos, n))
    /\ epc' = "while"
    /\ UNCHANGED <<xdata, nfft, ovfrac, kind, boundary, padded, queue, windows,
                   bins, scaling, psd_cnt, psd_result, nsegs, time,
                   gains, notSE>>

\* the producer is exhausted: the for loop's else clause starts
SEExhausted ==
    /\ epc = "pull"
    /\ epos >= Len(SeData)
    /\ epc' = "drain"
    /\ UNCHANGED <<xdata, nfft, ovfrac, kind, boundary, padded, epos, subarr_in,
                   queue, windows, bins, scaling, psd_cnt, psd_result, nsegs, time,
                   gains, notSE>>

\* lines 545-553: one pass of the first while loop
SERelease ==
    /\ epc = "while"
    /\ CanEmit(queue)
    /\ SeEmit
    /\ UNCHANGED <<xdata, nfft, ovfrac, kind, boundary, padded, epos, subarr_in,
                   scaling, nsegs, time,
                   notSE>>

\* lines 555-559: the while loop's else clause
SEPut ==
    /\ epc = "while"
    /\ ~CanEmit(queue)
    /\ queue' = FifoPut(queue, subarr_in)
    /\ epc' = "pull"
    /\ UNCHANGED <<xdata, nfft, ovfrac, kind, boundary, padded, epos, subarr_in,
                   windows, bins, scaling, psd_cnt, psd_result, nsegs, time,
                   gains, notSE>>

\* lines 564-569: one pass of the draining loop
SEDrain ==
    /\ epc = "drain"
    /\ CanEmit(queue)
    /\ SeEmit
    /\ UNCHANGED <<xdata, nfft, ovfrac, kind, boundary, padded, epos, subarr_in,
                   scaling, nsegs, time,
                   notSE>>

\* the engine returns; PSD then reaches its return statement (line 105), where
\* cnt is unbound if the loop body never ran
SEDone ==
    /\ epc = "drain"
    /\ ~CanEmit(queue)
    /\ epc' = IF kind = "psd" /\ psd_cnt = 0 THEN "UnboundLocalError" ELSE "done"
    /\ UNCHANGED <<xdata, nfft, ovfrac, kind, boundary, padded, epos, subarr_in,
                   queue, windows, bins, scaling, psd_cnt, psd_result, nsegs, time,
                   gains, notSE>>

\* welch line 651, stft line 772: int((shape[axis] - nfft) // (nfft * (1 -
\* overlap)) + 1), the floor division taken in exact arithmetic
DeclaredNsegs ==
    ((Len(SeData) - nfft) * ovfrac[2]) \div (nfft * (ovfrac[2] - ovfrac[1])) + 1

\* stft lines 777-781: the arange of segment times, in samples
TimeStart == IF boundary THEN 0 ELSE nfft \div 2
TimeStop == IF boundary THEN Len(SeData) + 1 ELSE Len(SeData) + 1 - nfft \div 2
TimeVector ==
    [k \in 1..RangeLen(TimeStart, TimeStop, Stride) |-> TimeStart + (k - 1) * Stride]

\* overlaps in [0, 1), some with nfft * overlap not an integer
Overlaps == {<<0, 1>>, <<1, 2>>, <<1, 3>>, <<2, 3>>}

InitSE ==
    /\ \E n \in 1..MaxSeN : xdata = [i \in 1..n |-> i]
    /\ nfft \in 2..MaxNfft
    /\ ovfrac \in Overlaps
    /\ kind \in {"welch", "stft", "psd"}
    /\ boundary \in BOOLEAN
    /\ padded \in BOOLEAN
    /\ kind \in {"welch", "psd"} => (~boundary /\ ~padded)
    /\ scaling \in Scalings \cup {"bogus"}
    /\ psd_cnt = 0
    /\ psd_result = <<0, 1>>
    /\ nsegs = DeclaredNsegs
    /\ time = IF kind = "stft" THEN TimeVector ELSE <<>>
    /\ gains = <<>>
    /\ epos = 0
    /\ subarr_in = <<>>
    /\ queue = <<>>
    /\ windows = <<>>
    /\ bins = <<>>
    /\ epc = "pull"
    /\ IdleOA /\ IdleSos /\ IdlePoly /\ IdlePro /\ IdleIO

NextSE == SEPull \/ SEExhausted \/ SERelease \/ SEPut \/ SEDrain \/ SEDone

SpecSE == InitSE /\ [][NextSE]_vars

\* the engine iterated to its end by a consumer that keeps calling next()
InitSELive == InitSE /\ Len(xdata) <= MaxLiveN
SpecSELive == InitSELive /\ [][NextSE]_vars /\ WF_vars(NextSE)

\* the k-th window (from 1) of a sequence cut at the stride
RefWindow(s, k) == PySlice(s, (k - 1) * Stride, (k - 1) * Stride + nfft)

\* C4: for N input samples welch yields floor((N - nfft) / stride) + 1
\* segments when N >= nfft and none when N < nfft, whatever the chunking of
\* the input, and every segment has nfft // 2 + 1 bins.
C4_WelchSegmentCount ==
    /\ \A k \in 1..Len(bins) : bins[k] = nfft \div 2 + 1
    /\ (kind = "welch" /\ epc = "done") =>
          /\ Len(bins) = Len(windows)
          /\ Len(windows) = IF Len(xdata) >= nfft
                            THEN (Len(xdata) - nfft) \div Stride + 1
                            ELSE 0

\* 19 segments for N / nfft = 10 and overlap 0.5 (nfft = 2, N = 20)
C4_Witness ==
    /\ kind = "welch" /\ epc = "done"
    /\ nfft = 2 /\ ovfrac = <<1, 2>> /\ Len(xdata) = 20
    /\ Len(windows) = 19

\* C5: for input chunks of any lengths the k-th window is samples
\* [k*stride, k*stride + nfft) of the concatenation of the input chunks, and
\* the windows come in increasing k.
C5_WindowsAreStridedSlices ==
    \A k \in 1..Len(windows) : windows[k] = RefWindow(SeData, k)

\* a window cut while the loop holds a chunk of 3 samples that follows
\* chunks of 2 samples in all, so the chunks pushed differ in length
C5_Witness ==
    /\ epc = "while"
    /\ Len(windows) >= 1
    /\ Stride < nfft
    /\ Len(subarr_in) = 3
    /\ epos = 5

\* C6: every window handed to the estimator has exactly nfft samples; once
\* the input is exhausted only complete windows are drained and the
\* remainder, fewer than nfft samples, stays in the FIFO and is not emitted.
C6_OnlyCompleteWindows ==
    /\ \A k \in 1..Len(windows) : Len(windows[k]) = nfft
    /\ epc \in {"drain", "done"} => epos = Len(SeData)
    /\ epc = "done" =>
          /\ FifoQsize(queue) < nfft
          /\ queue = PySlice(SeData, Len(windows) * Stride, Len(SeData))

\* a run that ends with a remainder in the FIFO after a window was drained
C6_Witness ==
    /\ epc = "done"
    /\ Len(windows) >= 2
    /\ FifoQsize(queue) > 0
    /\ FifoQsize(queue) > nfft - Stride

\* C7: with padded = True every input sample lies in at least one segment
C7_PaddedCoversInput ==
    (kind = "stft" /\ padded /\ epc = "done") =>
        \A i \in 1..Len(xdata) :
            \E k \in 1..Len(windows) :
                \E j \in 1..Len(windows[k]) : windows[k][j] = xdata[i]

\* C12: an unknown scaling identifier given to welch, stft or PSD is reported
\* at once: no chunk is ever pulled from the producer, no window is handed to
\* the estimator to be detrended, tapered and transformed, and the stream
\* never runs to its end without the error, whatever the input length.
C12_ScalingRejectedFirst ==
    ~ScalingOk =>
        /\ epos = 0
        /\ windows = <<>>
        /\ epc \notin {"done", "UnboundLocalError"}

\* C25: the time vector stft returns has one entry per emitted segment: its
\* length is the declared segment count and the number of segments the
\* engine yields, whatever boundary, padded and the parity of nfft, and
\* consecutive entries lie one stride apart.
C25_TimePerSegment ==
    (kind = "stft" /\ ScalingOk /\ epc = "done") =>
        /\ Len(time) = nsegs
        /\ Len(time) = Len(windows)
        /\ \A k \in 1..(Len(time) - 1) : time[k + 1] - time[k] = Stride

C28_DeclaredSegments ==
    /\ kind \in {"welch", "stft"} => nsegs >= 0
    /\ (kind \in {"welch", "stft"} /\ ScalingOk /\ epc = "done") =>
          nsegs = Len(windows)

\* the samples put into the FIFO so far: every chunk pulled but the one the
\* while loop still holds
SamplesPut == epos - (IF epc = "while" THEN Len(subarr_in) ELSE 0)

\* C29: in every state of the engine the FIFO holds (samples put so far) -
\* stride * (windows released so far) samples; get is only invoked with at
\* least nfft >= stride samples buffered, so it never fails, and a chunk is
\* only put with fewer than nfft samples buffered, so the FIFO never holds
\* more than nfft - 1 + (the largest chunk length) samples.
C29_FifoAccounting ==
    /\ [](ScalingOk =>
            /\ epc # "error"
            /\ Stride >= 1 /\ nfft >= Stride
            /\ FifoQsize(queue) = SamplesPut - Stride * Len(bins)
            /\ FifoQsize(queue) <= nfft - 1 + MaxChunk)
    /\ [][ScalingOk =>
            /\ Len(bins') > Len(bins) =>
                  /\ FifoQsize(queue) >= nfft
                  /\ FifoQsize(queue') = FifoQsize(queue) - Stride
            /\ SamplesPut' > SamplesPut =>
                  /\ FifoQsize(queue) < nfft
                  /\ FifoQsize(queue') = FifoQsize(queue) + Len(subarr_in)]_vars

\* the FIFO at its fullest, nfft - 1 samples and a chunk of the largest
\* length just put, after windows were released at a stride below nfft
C29_Witness ==
    /\ ScalingOk
    /\ epc = "pull"
    /\ Len(bins) >= 1
    /\ Stride >= 2 /\ Stride < nfft
    /\ Len(subarr_in) = MaxChunk
    /\ FifoQsize(queue) = nfft - 1 + MaxChunk

\* the iteration of the engine is over, normally or by an exception
SeEnded == epc \in {"done", "ValueError", "UnboundLocalError"}

\* C30: for a finite input and an overlap in [0, 1) the iteration of the
\* engine terminates: every release shortens the FIFO by stride >= 1 samples,
\* no input sample is pulled twice, and the stream ends once the input is
\* exhausted.
C30_EngineTerminates ==
    /\ <>SeEnded
    /\ [][/\ epos' >= epos
          /\ Len(bins') > Len(bins) => FifoQsize(queue') < FifoQsize(queue)]_vars

\* a stream that ended after windows were released one sample apart, with
\* nfft * overlap not an integer
C30_Witness ==
    /\ epc = "done"
    /\ ovfrac = <<2, 3>> /\ nfft = 2 /\ Stride = 1
    /\ Len(windows) >= 4
    /\ epos = Len(SeData)

\* the sum of the estimates of the windows ws
RECURSIVE SumEstimates(_)
SumEstimates(ws) ==
    IF ws = <<>> THEN 0 ELSE PsdBin0(Head(ws)) + SumEstimates(Tail(ws))

WelchCount ==
    IF Len(xdata) >= nfft THEN (Len(xdata) - nfft) \div Stride + 1 ELSE 0

-----------------------------------------------------------------------------
(* polyphase_resample *)

\* the samples of pro along axis
PData == [i \in 1..pn |-> i]

\* lines 296-309: the working chunk size
PolyCsize ==
    LET c == IF pchunksize > pn \div 3 THEN pn \div 3 ELSE pchunksize
    IN  IF c % down > 0 THEN CeilDiv(c, down) * down ELSE c

\* line 319
Overhang == CeilDiv(hlen - 1, down) * down

\* line 335: a = int(overhang * L / M), b = -a
TrimA == (Overhang * up) \div down

\* chunk k (from 0) of producer(pro, csize, axis), and the number of chunks
PolyChunk(k) == ProChunk(PData, k * PolyCsize, PolyCsize)
PolyNchunks == CeilDiv(pn, PolyCsize)

\* sps.resample_poly: the length of its output for n input samples
ResampleLen(n) ==
    LET g == Gcd(up, down)
        u == up \div g
        d == down \div g
    IN  IF u = 1 /\ d = 1 THEN n ELSE CeilDiv(n * u, d)

\* slice_along_axis(resampled, a, b): the length left of n samples
TrimmedLen(n) == IF TrimA = 0 THEN 0 ELSE Max(0, n - 2 * TrimA)

\* slice_along_axis(last, -overhang)
LastOverhang(last) ==
    IF Overhang = 0 THEN last
    ELSE PySlice(last, Max(0, Len(last) - Overhang), Len(last))

PolyYield(left, curr, right) ==
    [left |-> left, curr |-> curr, right |-> right,
     len |-> TrimmedLen(ResampleLen(Len(left) + Len(curr) + Len(right)))]

\* lines 292-294: the first statement of the generator's body
PolyRejectsNever == FALSE
PolyRejects == down >= pn

\* first next(): lines 292-336
PolyFirst ==
    /\ ppc = "start"
    /\ IF PolyRejects
       THEN /\ ppc' = "ValueError"
            /\ UNCHANGED <<iprior, icurrent, inext, presult, h_built>>
       ELSE IF PolyCsize < 1
       THEN \* producer(pro, csize, axis) with a non-positive chunksize
            /\ ppc' = "ChunksizeError"
            /\ h_built' = TRUE
            /\ UNCHANGED <<iprior, icurrent, inext, presult>>
       ELSE IF PolyNchunks < 2
       THEN \* the second next(inext) raises StopIteration inside the generator
            /\ ppc' = "RuntimeError"
            /\ h_built' = TRUE
            /\ inext' = 1
            /\ UNCHANGED <<iprior, icurrent, presult>>
       ELSE /\ h_built' = TRUE
            /\ presult' = <<PolyYield(Zeros(Overhang), PolyChunk(0),
                                      PySlice(PolyChunk(1), 0, Overhang))>>
            /\ iprior' = 0
            /\ icurrent' = 1
            /\ inext' = 2
            /\ ppc' = "loop"
    /\ UNCHANGED <<pn, up, down, pchunksize, hlen, notPoly>>

\* zip(iprior, icurrent, inext) has a triple left
PolyZipHas ==
    /\ iprior < PolyNchunks
    /\ icurrent < PolyNchunks
    /\ inext < PolyNchunks

\* a later next(): lines 339-354; n counts the triples from 1
PolyNext ==
    /\ ppc = "loop"
    /\ PolyZipHas
    /\ LET n    == icurrent
           cnt  == pn \div PolyCsize + (IF pn % PolyCsize # 0 THEN 1 ELSE 0) - 1
           last == PolyChunk(iprior)
           curr == PolyChunk(icurrent)
           nxt  == PolyChunk(inext)
           left == LastOverhang(last)
       IN  presult' = Append(presult,
              IF n < cnt - 1
              THEN PolyYield(left, curr, PySlice(nxt, 0, Overhang))
              ELSE PolyYield(left, curr \o nxt, Zeros(Len(left))))
    /\ iprior' = iprior + 1
    /\ icurrent' = icurrent + 1
    /\ inext' = inext + 1
    /\ UNCHANGED <<pn, up, down, pchunksize, hlen, h_built, ppc, notPoly>>

\* the zip is exhausted: the generator returns
PolyDone ==
    /\ ppc = "loop"
    /\ ~PolyZipHas
    /\ ppc' = "done"
    /\ UNCHANGED <<pn, up, down, pchunksize, hlen, iprior, icurrent, inext,
                   presult, h_built, notPoly>>

\* kernels of the Kaiser design have an odd number of taps (fir.py line 204)
TapCounts == {t \in 3..MaxTaps : t % 2 = 1}

InitPoly ==
    /\ pn \in 2..MaxPolyN
    /\ up \in 1..MaxUp
    /\ down \in 1..MaxDown
    /\ pchunksize \in 1..MaxPChunk
    /\ hlen \in TapCounts
    /\ iprior = 0
    /\ icurrent = 0
    /\ inext = 0
    /\ presult = <<>>
    /\ h_built = FALSE
    /\ ppc = "start"
    /\ IdleOA /\ IdleSos /\ IdleSE /\ IdlePro /\ IdleIO

NextPoly == PolyFirst \/ PolyNext \/ PolyDone

SpecPoly == InitPoly /\ [][NextPoly]_vars

RECURSIVE PolyTotal(_)
PolyTotal(rs) == IF rs = <<>> THEN 0 ELSE Head(rs).len + PolyTotal(Tail(rs))

\* round(a / b), halves to even
RoundDiv(a, b) ==
    LET q == a \div b
        r == a % b
    IN  IF 2 * r < b THEN q
        ELSE IF 2 * r > b THEN q + 1
        ELSE IF q % 2 = 0 THEN q ELSE q + 1

\* C8: for every N, L, M < N and requested chunksize the concatenated output
\* has round(N*L/M) samples, within one sample per boundary between the
\* chunks of the rechunked input.
C8_ResampledLength ==
    ppc = "done" =>
        Abs(PolyTotal(presult) - RoundDiv(pn * up, down)) <= PolyNchunks - 1

\* C13: with a decimation factor M >= N the stream ends in the error before
\* any chunk is read from the producer, before the antialiasing kernel is
\* designed and before any output chunk is yielded.
C13_DecimationRejectedFirst ==
    down >= pn =>
        /\ ppc \in {"start", "ValueError"}
        /\ iprior = 0 /\ icurrent = 0 /\ inext = 0
        /\ ~h_built
        /\ presult = <<>>

\* the error has been raised for a decimation factor at or above N
C13_Witness ==
    /\ ppc = "ValueError"
    /\ down >= pn
    /\ pn >= 3

\* the samples that were current before the j-th yielded chunk
RECURSIVE PolyCurrStart(_, _)
PolyCurrStart(rs, j) ==
    IF j <= 1 THEN 0 ELSE Len(rs[j - 1].curr) + PolyCurrStart(rs, j - 1)

\* the current parts of the yielded chunks, in order
PolyCurrs(rs) == [j \in 1..Len(rs) |-> rs[j].curr]

\* the sliding window of the j-th yielded chunk is the one the input gives:
\* left is the last overhang samples of the chunk before (zeros for the first
\* chunk), right the first overhang samples of the chunk after (zeros at the
\* end of the signal)
PolyWindowOk(rs, j) ==
    LET a == PolyCurrStart(rs, j)
        b == a + Len(rs[j].curr)
    IN  /\ rs[j].curr = PySlice(PData, a, b)
        /\ rs[j].left = IF a = 0 THEN Zeros(Overhang)
                        ELSE LastOverhang(PolyChunk(a \div PolyCsize - 1))
        /\ rs[j].right = IF b >= pn THEN Zeros(Len(rs[j].right))
                         ELSE PySlice(PolyChunk(b \div PolyCsize), 0, Overhang)

\* C22: every chunk of the rechunked input is current exactly once and in
\* input order, with the last overhang samples of the chunk before on its
\* left and the first overhang samples of the chunk after on its right
\* (zeros at the two ends); no input sample is skipped or current twice.
C22_SlidingWindow ==
    /\ \A j \in 1..Len(presult) : PolyWindowOk(presult, j)
    /\ ppc = "done" => Concat(PolyCurrs(presult)) = PData

\* C23: for every N > M and requested chunksize the working chunk size is a
\* positive multiple of M and the input rechunked at it has at least three
\* chunks, so the two initial advances of the look-ahead iterator succeed.
C23_ThreeChunks ==
    (down < pn /\ ppc # "start") =>
        /\ PolyCsize >= 1
        /\ PolyCsize % down = 0
        /\ IF PolyCsize >= 1 THEN PolyNchunks >= 3 ELSE FALSE
        /\ ppc \in {"loop", "done"}

-----------------------------------------------------------------------------
(* The producer: built from one array or from a one-shot generator of       *)
(* arrays, iterated forward or through reversed(pro)                        *)

\* the logical sequence: the arrays behind the producer, concatenated
ProLogical == Concat(psrc)

RECURSIVE SumLens(_)
SumLens(ss) == IF ss = <<>> THEN 0 ELSE Len(Head(ss)) + SumLens(Tail(ss))

\* pro.shape along axis: the lengths of the arrays, summed
ProShapeFirst == IF psrc = <<>> THEN 0 ELSE Len(psrc[1])
ProShape == SumLens(psrc)

ProNchunks == CeilDiv(Len(ProLogical), pcs)

\* a forward iteration of a generator collects arrays until it holds a chunk
ProNeedsMoreEmpty(buf) == Len(buf) = 0
ProNeedsMore(buf) == Len(buf) < pcs

RECURSIVE ProFill(_, _)
ProFill(buf, g) ==
    IF ProNeedsMore(buf) /\ g < Len(psrc)
    THEN ProFill(buf \o psrc[g + 1], g + 1)
    ELSE [buf |-> buf, g |-> g]

\* chunk k (from 0) of reversed(pro): the chunks in reverse order, each flipped
ProRevChunkUnflipped(k) == ProChunk(ProLogical, (ProNchunks - 1 - k) * pcs, pcs)
ProRevChunk(k) == Flip(ProChunk(ProLogical, (ProNchunks - 1 - k) * pcs, pcs))

\* the chunks one whole iteration yields
ProExpected(rev) ==
    IF rev THEN [k \in 1..ProNchunks |-> ProRevChunk(k - 1)]
    ELSE Rechunk(ProLogical, pcs)

\* a one-shot source taken up again: a restart, which is reported
ProRestartNever(i) == FALSE
ProRestart(i) == pkind = "gen" /\ started # <<>>

ProHasNext(i) ==
    IF pkind = "gen" /\ ~itrev[i]
    THEN Len(ProFill(itbuf[i], gnext).buf) > 0
    ELSE itpos[i] < ProNchunks

\* producer(obj, chunksize, axis)
ProBuild ==
    /\ ~pbuilt
    /\ pbuilt' = TRUE
    /\ pshape' = ProShape
    /\ itpc' = [i \in Its |-> "new"]
    /\ UNCHANGED <<psrc, pkind, pcs, gnext, started, itrev, itpos, itbuf,
                   itout, notPro>>

\* iter(pro) or iter(reversed(pro)); reversing a generator reads all of it
ProIter(i) ==
    /\ itpc[i] = "new"
    /\ started' = Append(started, i)
    /\ IF ProRestart(i)
       THEN /\ itpc' = [itpc EXCEPT ![i] = "RestartError"]
            /\ UNCHANGED gnext
       ELSE /\ itpc' = [itpc EXCEPT ![i] = "iter"]
            /\ gnext' = IF pkind = "gen" /\ itrev[i] THEN Len(psrc) ELSE gnext
    /\ UNCHANGED <<psrc, pkind, pcs, pbuilt, pshape, itrev, itpos, itbuf,
                   itout, notPro>>

\* next() with a chunk left
ProNext(i) ==
    /\ itpc[i] = "iter"
    /\ ProHasNext(i)
    /\ IF pkind = "gen" /\ ~itrev[i]
       THEN LET f == ProFill(itbuf[i], gnext)
            IN  /\ itout' = [itout EXCEPT ![i] = Append(@, PySlice(f.buf, 0, pcs))]
                /\ itbuf' = [itbuf EXCEPT ![i] = PySlice(f.buf, pcs, Len(f.buf))]
                /\ gnext' = f.g
       ELSE /\ itout' = [itout EXCEPT ![i] =
                           Append(@, IF itrev[i] THEN ProRevChunk(itpos[i])
                                     ELSE ProChunk(ProLogical, itpos[i] * pcs, pcs))]
            /\ UNCHANGED <<itbuf, gnext>>
    /\ itpos' = [itpos EXCEPT ![i] = @ + 1]
    /\ UNCHANGED <<psrc, pkind, pcs, pbuilt, pshape, started, itpc, itrev,
                   notPro>>

\* next() with nothing left
ProStop(i) ==
    /\ itpc[i] = "iter"
    /\ ~ProHasNext(i)
    /\ itpc' = [itpc EXCEPT ![i] = "done"]
    /\ UNCHANGED <<psrc, pkind, pcs, pbuilt, pshape, gnext, started, itrev,
                   itpos, itbuf, itout, notPro>>

\* the arrays of the given lengths that cut the ramp off + 1, off + 2, ...
RECURSIVE RampCut(_, _)
RampCut(lens, off) ==
    IF lens = <<>> THEN <<>>
    ELSE <<[i \in 1..Head(lens) |-> off + i]>> \o RampCut(Tail(lens), off + Head(lens))

SegLens == UNION {[1..k -> 1..MaxSegLen] : k \in 1..MaxSegs}

InitPro ==
    /\ pkind \in {"array", "gen"}
    /\ \E lens \in SegLens \cup {<<n>> : n \in 1..MaxArrN} :
          /\ pkind = "array" => Len(lens) = 1
          /\ pkind = "gen" => lens \in SegLens
          /\ psrc = RampCut(lens, 0)
    /\ pcs \in 1..MaxProChunk
    /\ pbuilt = FALSE
    /\ pshape = 0
    /\ gnext = 0
    /\ started = <<>>
    /\ itpc = [i \in Its |-> "off"]
    /\ itrev \in [Its -> BOOLEAN]
    /\ ~itrev[3]
    /\ itpos = [i \in Its |-> 0]
    /\ itbuf = [i \in Its |-> <<>>]
    /\ itout = [i \in Its |-> <<>>]
    /\ IdleOA /\ IdleSos /\ IdleSE /\ IdlePoly /\ IdleIO

NextPro == ProBuild \/ \E i \in Its : ProIter(i) \/ ProNext(i) \/ ProStop(i)

SpecPro == InitPro /\ [][NextPro]_vars

\* C14: for a producer built from an array or from a generator of arrays of
\* non-uniform lengths, and every chunksize >= 1, the k-th chunk (from 0) is
\* the slice [k*chunksize, min((k+1)*chunksize, N)) of the logical sequence,
\* and the chunks of a whole iteration concatenate to the sequence.
C14_ChunksAreSlices ==
    \A i \in Its :
        (~itrev[i] /\ itpc[i] \in {"iter", "done"}) =>
            /\ \A k \in 1..Len(itout[i]) :
                  itout[i][k] = PySlice(ProLogical, (k - 1) * pcs, k * pcs)
            /\ itpc[i] = "done" => Concat(itout[i]) = ProLogical

\* a generator of three arrays of different lengths read to its end, with a
\* chunksize equal to the length of one of the arrays
C14_Witness ==
    /\ pkind = "gen"
    /\ Len(psrc) = 3
    /\ Len(psrc[1]) # Len(psrc[2])
    /\ pcs = Len(psrc[2])
    /\ \E i \in Its : ~itrev[i] /\ itpc[i] = "done" /\ Len(itout[i]) >= 2

-----------------------------------------------------------------------------
(* An EDF Reader in a with block: FileManager (edf.py), Reader.read         *)

\* the samples of the file's longest channel
FileData == [i \in 1..nsamp |-> i]

\* FileManager.close (edf.py lines 53-56), EDFReader.__exit__ (readers.py 34-37)
FobjLeftOpen == fobj
FobjClosed == "closed"

\* __exit__ returns None: the exception of the body is not suppressed
ExitSuppresses == FALSE

\* Reader.read line 261 (EDFReader.read line 124): the bounds test
ReadOutOfBounds == rstart > nsamp

\* _read_gen: zip(starts, starts[1:]) over starts = range(start, max, chunksize)
ReadGenPairs == Max(0, RangeLen(rstart, nsamp, rchunk) - 1)

\* _read_array(start, stop, ...) on one channel
ReadArray(a, b) == PySlice(FileData, a, b)

\* Reader(path) and __enter__: the file is opened by __init__
IOOpen ==
    /\ wpc = "new"
    /\ fobj' = "open"
    /\ wpc' = "body"
    /\ UNCHANGED <<nsamp, rstart, rstop, rchunk, rpc, rnext, rout, raised,
                   propagated, notIO>>

\* reader.read(start, stop, chunksize=...) in the body: edf.py lines 261-271
IORead ==
    /\ wpc = "body"
    /\ raised = "none"
    /\ rpc = "none"
    /\ IF ReadOutOfBounds
       THEN /\ rpc' = "EOFError"
            /\ raised' = "EOFError"
            /\ UNCHANGED rout
       ELSE IF rstop = 0
       THEN /\ rpc' = "generator"
            /\ UNCHANGED <<rout, raised>>
       ELSE /\ rpc' = "array"
            /\ rout' = <<ReadArray(rstart, rstop)>>
            /\ UNCHANGED raised
    /\ UNCHANGED <<fobj, wpc, nsamp, rstart, rstop, rchunk, rnext, propagated,
                   notIO>>

\* next() on the generator read returned: _read_gen lines 227-229
IOGenNext ==
    /\ wpc = "body"
    /\ raised = "none"
    /\ rpc = "generator"
    /\ rnext < ReadGenPairs
    /\ rout' = Append(rout, ReadArray(rstart + rnext * rchunk,
                                      rstart + (rnext + 1) * rchunk))
    /\ rnext' = rnext + 1
    /\ UNCHANGED <<fobj, wpc, nsamp, rstart, rstop, rchunk, rpc, raised,
                   propagated, notIO>>

IOGenStop ==
    /\ wpc = "body"
    /\ raised = "none"
    /\ rpc = "generator"
    /\ rnext >= ReadGenPairs
    /\ rpc' = "exhausted"
    /\ UNCHANGED <<fobj, wpc, nsamp, rstart, rstop, rchunk, rnext, rout, raised,
                   propagated, notIO>>

\* some statement of the body raises
IOBodyRaise ==
    /\ wpc = "body"
    /\ raised = "none"
    /\ raised' = "BodyError"
    /\ UNCHANGED <<fobj, wpc, nsamp, rstart, rstop, rchunk, rpc, rnext, rout,
                   propagated, notIO>>

\* the with block is left, at its end, with a generator abandoned, or by the
\* exception raised: __exit__ (edf.py lines 47-51, readers.py lines 34-37)
IOExit ==
    /\ wpc = "body"
    /\ fobj' = FobjClosed
    /\ propagated' = IF ExitSuppresses THEN "none" ELSE raised
    /\ wpc' = "exited"
    /\ UNCHANGED <<nsamp, rstart, rstop, rchunk, rpc, rnext, rout, raised,
                   notIO>>

InitIO ==
    /\ fobj = "unopened"
    /\ wpc = "new"
    /\ nsamp \in 0..MaxFileN
    /\ rstart \in 0..(MaxFileN + 2)
    /\ rstop \in 0..(MaxFileN + 1)
    /\ rchunk \in 1..MaxRChunk
    /\ rpc = "none"
    /\ rnext = 0
    /\ rout = <<>>
    /\ raised = "none"
    /\ propagated = "none"
    /\ IdleOA /\ IdleSos /\ IdleSE /\ IdlePoly /\ IdlePro

NextIO == IOOpen \/ IORead \/ IOGenNext \/ IOGenStop \/ IOBodyRaise \/ IOExit

SpecIO == InitIO /\ [][NextIO]_vars

\* C18: when the with block of a Reader, Writer or EDFReader has been left,
\* at its end, with a read generator abandoned or by an exception of the
\* body, the file object is closed and the exception has been propagated;
\* the file is open only inside the block.
C18_FileClosedOnExit ==
    /\ wpc = "exited" => (fobj = "closed" /\ propagated = raised)
    /\ fobj = "open" => wpc = "body"

\* the block was left by an exception raised while a read generator was
\* partly consumed
C18_Witness ==
    /\ wpc = "exited"
    /\ rpc = "generator"
    /\ Len(rout) >= 1
    /\ rnext < ReadGenPairs
    /\ raised = "BodyError"
    /\ propagated = "BodyError"

\* C19: read raises the out-of-bounds error whenever no sample exists at index
\* start, that is for every start >= the number of samples in the file, and
\* then returns neither an array nor a generator.
C19_StartOutOfBounds ==
    (rpc # "none" /\ rstart >= nsamp) => rpc = "EOFError"

\* C27: the chunks of the generator read(start, stop=None, chunksize=c) returns,
\* concatenated in order, are the samples from start to the end of the file,
\* each once, with a last chunk shorter than c when the count is no multiple
\* of c and a single chunk when no more than c samples remain.
C27_GeneratorReadsToEnd ==
    rpc = "exhausted" => Concat(rout) = PySlice(FileData, rstart, nsamp)

=============================================================================
